---- MODULE Spec2Model ----
(***************************************************************************)
(* Model of the chat terminal client, src/frontend/js/terminal.js:         *)
(* class Terminal (the autocomplete state machine, the single-flight       *)
(* submission handleInput and its streaming read loop).                    *)
(*                                                                         *)
(* Text is a sequence of one-character strings.  The response body is a    *)
(* sequence of bytes: an ASCII byte is named by its character, the two     *)
(* character U+00E9 is named "U00E9" and the two bytes of its UTF-8        *)
(* encoding "C3" and "A9", and the replacement character U+FFFD that       *)
(* TextDecoder emits is named "FFFD".                                      *)
(***************************************************************************)
EXTENDS Integers, Sequences, FiniteSets, TLC

(***************************************************************************)
(* Bounds of the model (not program constants).                            *)
(***************************************************************************)
\* lines the server emits on /api/chat in one run, over all responses
MaxLines == 2
\* submissions after whose completion the user submits no more
MaxSubmits == 1
\* debounce timers scheduled in one run
MaxTimers == 2
\* blur grace timers pending at once
MaxBlur == 1

(***************************************************************************)
(* Text helpers: String.prototype.trim / startsWith / slice / split.       *)
(***************************************************************************)
IsSpace(c) == c \in {" ", "\n", "\t"}

RECURSIVE TrimLeft(_)
TrimLeft(s) ==
    IF s = <<>> THEN <<>>
    ELSE IF IsSpace(Head(s)) THEN TrimLeft(Tail(s)) ELSE s

RECURSIVE TrimRight(_)
TrimRight(s) ==
    IF s = <<>> THEN <<>>
    ELSE IF IsSpace(s[Len(s)]) THEN TrimRight(SubSeq(s, 1, Len(s) - 1)) ELSE s

\* String.prototype.trim
Trim(s) == TrimRight(TrimLeft(s))

\* String.prototype.startsWith
StartsWith(s, p) == Len(s) >= Len(p) /\ SubSeq(s, 1, Len(p)) = p

\* String.prototype.slice(n)
Slice(s, n) == SubSeq(s, n + 1, Len(s))

\* String.prototype.split('\n'): "a\n" gives <<"a", "">>, "" gives <<"">>
RECURSIVE SplitFrom(_, _)
SplitFrom(s, cur) ==
    IF s = <<>> THEN <<cur>>
    ELSE IF Head(s) = "\n" THEN <<cur>> \o SplitFrom(Tail(s), <<>>)
    ELSE SplitFrom(Tail(s), Append(cur, Head(s)))

SplitLines(s) == SplitFrom(s, <<>>)

(***************************************************************************)
(* The wire: what the server sends on /api/chat.                           *)
(***************************************************************************)
Marker == <<"d", "a", "t", "a", ":", " ">>

TokA == <<"a">>
TokE == <<"U00E9">>
UrlU  == <<"u">>

\* the records the server emits (spec section 6): token, images, done
JsonValues ==
    { [token |-> TokA], [token |-> TokE],
      [images |-> <<UrlU>>], [images |-> <<>>],
      [done |-> TRUE] }

Quote(s) == <<"\"">> \o s \o <<"\"">>

\* JSON text of a record of JsonValues (what JSON.parse inverts)
JsonText(r) ==
    IF "token" \in DOMAIN r
      THEN <<"{">> \o Quote(<<"t", "o", "k", "e", "n">>) \o <<":">>
              \o Quote(r.token) \o <<"}">>
    ELSE IF "images" \in DOMAIN r
      THEN <<"{">> \o Quote(<<"i", "m", "a", "g", "e", "s">>) \o <<":", "[">>
              \o (IF r.images = <<>> THEN <<>> ELSE Quote(r.images[1]))
              \o <<"]", "}">>
    ELSE <<"{">> \o Quote(<<"d", "o", "n", "e">>) \o <<":">>
              \o <<"t", "r", "u", "e">> \o <<"}">>

\* a line of the response: an event line, a line with a payload that is no
\* JSON, or a line without the marker (an SSE comment)
EventLines == { [kind |-> "event", json |-> r] : r \in JsonValues }
JunkLines  == { [kind |-> "malformed"], [kind |-> "comment"] }
WireLines  == EventLines \cup JunkLines

LineText(l) ==
    IF l.kind = "event" THEN Marker \o JsonText(l.json)
    ELSE IF l.kind = "malformed" THEN Marker \o <<"{", "o", "o", "p", "s">>
    ELSE <<":", " ", "k">>

\* UTF-8 encoding of a text
RECURSIVE Encode(_)
Encode(s) ==
    IF s = <<>> THEN <<>>
    ELSE (IF Head(s) = "U00E9" THEN <<"C3", "A9">> ELSE <<Head(s)>>) \o Encode(Tail(s))

\* the bytes of a response made of the given lines, each ended by "\n"
RECURSIVE WireText(_)
WireText(ls) ==
    IF ls = <<>> THEN <<>>
    ELSE LineText(Head(ls)) \o <<"\n">> \o WireText(Tail(ls))

WireBytes(ls) == Encode(WireText(ls))

\* all responses of at most n lines
RECURSIVE SeqsUpTo(_, _)
SeqsUpTo(S, n) ==
    IF n = 0 THEN { <<>> }
    ELSE LET shorter == SeqsUpTo(S, n - 1)
         IN  shorter \cup { Append(q, x) : q \in shorter, x \in S }

Streams == SeqsUpTo(WireLines, MaxLines)

(***************************************************************************)
(* The read loop of handleInput, lines 281-305.                            *)
(***************************************************************************)
\* decoder.decode(value), line 281: a fresh, non-streaming decode of one
\* chunk; a byte of a multi-byte character cut off by the chunk boundary
\* decodes to U+FFFD
RECURSIVE Decode(_)
Decode(b) ==
    IF b = <<>> THEN <<>>
    ELSE IF Head(b) = "C3" /\ Len(b) >= 2 /\ b[2] = "A9"
      THEN <<"U00E9">> \o Decode(Tail(Tail(b)))
    ELSE IF Head(b) \in {"C3", "A9"} THEN <<"FFFD">> \o Decode(Tail(b))
    ELSE <<Head(b)>> \o Decode(Tail(b))

\* the JSON texts JSON.parse accepts here, each with its value
JsonTable == { [text |-> JsonText(r), json |-> r] : r \in JsonValues }

\* JSON.parse(data), line 289: the record whose JSON text this is (white
\* space around it is allowed), or a throw
ParseJSON(data) ==
    LET hits == { e \in JsonTable : e.text = Trim(data) }
    IN  IF hits = {} THEN [ok |-> FALSE]
        ELSE [ok |-> TRUE, json |-> (CHOOSE e \in hits : TRUE).json]

\* the record a line yields (lines 285-289), or none when the line is skipped
LineRecord(line) ==
    IF ~StartsWith(line, Marker) THEN [ok |-> FALSE]
    ELSE LET data == Slice(line, 6)
         IN  IF Trim(data) = <<>> THEN [ok |-> FALSE] ELSE ParseJSON(data)

\* a fold that puts the new token first
PrependToken(full, tok) == tok \o full

\* fullResponse += json.token, line 291
AppendToken(full, tok) == full \o tok

\* imageUrls = json.images, line 295
SetImages(old, imgs) == imgs

\* lines 290-299 for one parsed record; acc is the loop's local state:
\* fullResponse, imageUrls, whether updateTypingLine was called, the records
\* processed so far, and whether the for loop hit its break
\* if (json.token): a non-empty string
TokenTruthy(json) == "token" \in DOMAIN json /\ json.token # <<>>
\* if (json.images): any array, the empty one too
ImagesTruthy(json) == "images" \in DOMAIN json
\* if (json.done)
DoneTruthy(json) == "done" \in DOMAIN json /\ json.done = TRUE

ProcessRecord(acc, json) ==
    LET a1 == IF TokenTruthy(json)
                THEN [acc EXCEPT !.fullResponse = AppendToken(@, json.token),
                                 !.rendered = TRUE]
                ELSE acc
        a2 == IF ImagesTruthy(json)
                THEN [a1 EXCEPT !.imageUrls = SetImages(@, json.images)]
                ELSE a1
    IN  [a2 EXCEPT !.events = Append(@, json),
                   !.broke = DoneTruthy(json)]

\* a loop that a line it cannot use makes stop
RECURSIVE ProcessLinesStopAtJunk(_, _)
ProcessLinesStopAtJunk(lines, acc) ==
    IF lines = <<>> \/ acc.broke THEN acc
    ELSE LET r == LineRecord(Head(lines))
         IN  IF r.ok THEN ProcessLinesStopAtJunk(Tail(lines), ProcessRecord(acc, r.json))
             ELSE acc

\* the for loop over the lines of one chunk, lines 284-305
RECURSIVE ProcessLines(_, _)
ProcessLines(lines, acc) ==
    IF lines = <<>> \/ acc.broke THEN acc
    ELSE LET r == LineRecord(Head(lines))
         IN  ProcessLines(Tail(lines),
                          IF r.ok THEN ProcessRecord(acc, r.json) ELSE acc)

\* one turn of the while loop on a chunk of bytes, lines 281-305
ProcessChunk(value, full, imgs, evs) ==
    ProcessLines(SplitLines(Decode(value)),
                 [fullResponse |-> full, imageUrls |-> imgs, rendered |-> FALSE,
                  events |-> evs, broke |-> FALSE])


(***************************************************************************)
(* The display log: the children of terminalBody, lines 156-234.           *)
(***************************************************************************)
\* line 310: the fixed text shown when the response is empty
Placeholder == <<"(no response)">>

\* line 315: the error line for error.message
ErrorText(msg) == <<"error: ", msg>>

\* error.message of the three failures of a submission
HttpError   == "HTTP error! status: 500"
FetchError  == "Failed to fetch"
ReadError   == "network error"

\* addLine(text, className, images), lines 156-193; the image container is
\* built only for a non-empty list (line 172), so null and [] show alike
addLine(lg, text, className, images) ==
    Append(lg, [cls |-> className, text |-> text, images |-> images])

\* addTypingLine(), lines 195-219: the element with id 'typing-line'
addTypingLine(lg) ==
    Append(lg, [cls |-> "typing", text |-> <<>>, images |-> <<>>])

\* document.getElementById('typing-line'): the first such element, 0 if none
TypingIndex(lg) ==
    IF \E i \in 1..Len(lg) : lg[i].cls = "typing"
      THEN CHOOSE i \in 1..Len(lg) :
             lg[i].cls = "typing" /\ \A j \in 1..(i - 1) : lg[j].cls # "typing"
      ELSE 0

\* updateTypingLine(text), lines 221-227
updateTypingLine(lg, text) ==
    IF TypingIndex(lg) = 0 THEN lg
    ELSE [lg EXCEPT ![TypingIndex(lg)].text = text]

\* a removal that leaves the in-progress entry in the log
KeepTypingLine(lg) == lg

\* removeTypingLine(), lines 229-234
removeTypingLine(lg) ==
    LET i == TypingIndex(lg)
    IN  IF i = 0 THEN lg
        ELSE SubSeq(lg, 1, i - 1) \o SubSeq(lg, i + 1, Len(lg))

\* the number of entries of a class
CountCls(lg, c) == Cardinality({ i \in 1..Len(lg) : lg[i].cls = c })

\* the submissions that have ended: each left a response or an error entry
Completed(lg) == CountCls(lg, "output") + CountCls(lg, "output error")

(***************************************************************************)
(* Autocomplete data.                                                      *)
(***************************************************************************)
NameMo == <<"M", "o">>
NameMa == <<"M", "a">>

\* data.artworks of an autocomplete response, by name
ArtworkLists == { <<>>, <<NameMo, NameMa>> }

\* the JSON bodies /api/autocomplete answers with; the last has no artworks
AutocompleteBodies ==
    { [artworks |-> l] : l \in ArtworkLists } \cup { [detail |-> "error"] }

\* what the user types into the input
InputTexts == { <<" ">>, <<"M", " ">> }

\* the JSON bodies /api/session/new answers with; the last has no session_id
SessionBodies == { [session_id |-> "s-1"], [detail |-> "error"] }

(***************************************************************************)
(* State.                                                                  *)
(***************************************************************************)
VARIABLES
    sessionId,            \* this.sessionId: "null", "undefined" or the handle
    sessionPc,            \* createSession: "pending" or "settled"
    isProcessing,         \* this.isProcessing, the Submission Lock
    inputDisabled,        \* this.userInput.disabled
    inputValue,           \* this.userInput.value
    acShown,              \* autocompleteList.classList.contains('show')
    acItems,              \* the names of the .autocomplete-item children
    selectedIndex,        \* this.selectedIndex
    autocompleteTimeout,  \* this.autocompleteTimeout: a timer id, 0 for null
    timers,               \* the debounce timers pending: [id, query]
    nextTimer,            \* the id setTimeout returns next
    acFetches,            \* the autocomplete fetches in flight: [id, query]
    blurTimers,           \* the blur grace timers pending
    log,                  \* the children of terminalBody
    chatRequests,         \* the bodies POSTed to /api/chat, in order
    tasks,                \* the suspended invocations of handleInput
    linesSent             \* the lines the server has emitted on /api/chat

acVars == <<acShown, acItems, selectedIndex, autocompleteTimeout, timers,
            nextTimer, acFetches>>
subVars == <<isProcessing, inputDisabled, inputValue, log, chatRequests, tasks>>
sesVars == <<sessionId, sessionPc>>
envVars == <<blurTimers, linesSent>>
vars == <<sessionId, sessionPc, isProcessing, inputDisabled, inputValue,
          acShown, acItems, selectedIndex, autocompleteTimeout, timers,
          nextTimer, acFetches, blurTimers, log, chatRequests, tasks, linesSent>>

\* the constructor, lines 2-12, and a terminalBody without children
Init ==
    /\ sessionId = "null"
    /\ sessionPc = "pending"
    /\ isProcessing = FALSE
    /\ inputDisabled = FALSE
    /\ inputValue = <<>>
    /\ acShown = FALSE
    /\ acItems = <<>>
    /\ selectedIndex = -1
    /\ autocompleteTimeout = 0
    /\ timers = {}
    /\ nextTimer = 1
    /\ acFetches = {}
    /\ blurTimers = 0
    /\ log = <<>>
    /\ chatRequests = <<>>
    /\ tasks = {}
    /\ linesSent = 0

(***************************************************************************)
(* createSession, lines 144-154.                                           *)
(***************************************************************************)
\* this.sessionId = data.session_id, line 150 (response.ok is not looked at)
SessionIdOf(data) ==
    IF "session_id" \in DOMAIN data THEN data.session_id ELSE "undefined"

CreateSessionResolves ==
    /\ sessionPc = "pending"
    /\ \E data \in SessionBodies : sessionId' = SessionIdOf(data)
    /\ sessionPc' = "settled"
    /\ UNCHANGED <<acVars, subVars, envVars>>

\* fetch or response.json() rejects: the catch of line 151 only logs
CreateSessionFails ==
    /\ sessionPc = "pending"
    /\ sessionPc' = "settled"
    /\ UNCHANGED <<sessionId, acVars, subVars, envVars>>

(***************************************************************************)
(* handleInput, lines 240-321.                                             *)
(***************************************************************************)
\* a dispatch that leaves the lock as it was
LockLeftAlone(processing) == processing

\* this.isProcessing = true, line 249
LockOnDispatch(processing) == TRUE

\* line 242: if (!message || this.isProcessing) return
HandleInputReturns(message, processing) == message = <<>> \/ processing

\* the locals of an invocation suspended at await fetch, lines 253-267;
\* sent, events and sawDone are history: the lines the server emitted, the
\* records the loop processed, and whether a done record was processed
NewTask(message) ==
    [id |-> Len(chatRequests) + 1, pc |-> "fetch", message |-> message,
     fullResponse |-> <<>>, imageUrls |-> <<>>, body |-> <<>>,
     sent |-> <<>>, events |-> <<>>, sawDone |-> FALSE]

\* the body of the POST, lines 263-266
ChatBody(message) == [message |-> message, session_id |-> sessionId]

\* handleInput() up to its first await, on the input value val
handleInput(val) ==
    LET message == Trim(val)
    IN  IF HandleInputReturns(message, isProcessing)
          THEN /\ inputValue' = val
               /\ UNCHANGED <<isProcessing, inputDisabled, log, chatRequests, tasks>>
          ELSE /\ Completed(log) < MaxSubmits
               /\ log' = addTypingLine(addLine(log, message, "output user", <<>>))
               /\ inputValue' = <<>>
               /\ isProcessing' = LockOnDispatch(isProcessing)
               /\ inputDisabled' = TRUE
               /\ chatRequests' = Append(chatRequests, ChatBody(message))
               /\ tasks' = tasks \cup { NewTask(message) }

\* the cleanup written at the end of the try block instead of in finally
FinallyAfterTryOnly(completion) ==
    IF completion = "normal"
      THEN isProcessing' = FALSE /\ inputDisabled' = FALSE
      ELSE UNCHANGED <<isProcessing, inputDisabled>>

\* the finally block, lines 316-320; completion is how the try block or the
\* catch block ended ("normal" or "throw")
Finally(completion) ==
    /\ isProcessing' = FALSE
    /\ inputDisabled' = FALSE

\* a catch block that leaves the in-progress entry in place
CatchKeepsTypingLine(t, msg) ==
    /\ log' = addLine(log, ErrorText(msg), "output error", <<>>)
    /\ tasks' = tasks \ {t}
    /\ Finally("throw")
    /\ UNCHANGED <<inputValue, chatRequests, sesVars, acVars, envVars>>

\* the catch block, lines 312-315, then finally
Catch(t, msg) ==
    /\ log' = addLine(removeTypingLine(log), ErrorText(msg), "output error", <<>>)
    /\ tasks' = tasks \ {t}
    /\ Finally("throw")
    /\ UNCHANGED <<inputValue, chatRequests, sesVars, acVars, envVars>>

\* await fetch rejects, line 258
ChatFetchRejects(t) ==
    /\ t.pc = "fetch"
    /\ Catch(t, FetchError)

\* line 269: the response is not ok
ChatRespondsNotOk(t) ==
    /\ t.pc = "fetch"
    /\ Catch(t, HttpError)

\* lines 273-275: the response is ok and its body will carry the lines s
ChatRespondsOk(t, s) ==
    /\ t.pc = "fetch"
    /\ linesSent + Len(s) <= MaxLines
    /\ linesSent' = linesSent + Len(s)
    /\ tasks' = (tasks \ {t}) \cup
                  { [t EXCEPT !.pc = "read", !.body = WireBytes(s), !.sent = s] }
    /\ UNCHANGED <<isProcessing, inputDisabled, inputValue, log, chatRequests,
                   sesVars, acVars, blurTimers>>

\* the task after one turn of the while loop that ended in the local state
\* r, the body cut after k bytes; the break of line 298 leaves the for loop
\* only, so the task goes on to the next reader.read() whether or not a done
\* record was seen
AfterChunk(t, k, r) ==
    [t EXCEPT !.body = SubSeq(t.body, k + 1, Len(t.body)),
              !.fullResponse = r.fullResponse,
              !.imageUrls = r.imageUrls,
              !.events = r.events,
              !.sawDone = @ \/ r.broke]

\* the local state after the turn of the while loop on the next k bytes
ChunkResult(t, k) ==
    ProcessChunk(SubSeq(t.body, 1, k), t.fullResponse, t.imageUrls, t.events)

\* reader.read() resolves with the next k bytes, lines 278-305;
\* updateTypingLine is called with the text so far at every token, line 292
ReadChunk(t, k) ==
    /\ t.pc = "read"
    /\ k \in 1..Len(t.body)
    /\ \E r \in { ChunkResult(t, k) } :
          /\ tasks' = (tasks \ {t}) \cup { AfterChunk(t, k, r) }
          /\ log' = IF r.rendered THEN updateTypingLine(log, r.fullResponse)
                     ELSE log
    /\ UNCHANGED <<isProcessing, inputDisabled, inputValue, chatRequests,
                   sesVars, acVars, envVars>>

\* a finalization without the placeholder
FinalTextAsIs(full) == full

\* fullResponse || the placeholder, line 310
FinalText(full) == IF full = <<>> THEN Placeholder ELSE full

\* imageUrls.length > 0 ? imageUrls : null, line 310
FinalImages(imgs) == IF Len(imgs) > 0 THEN imgs ELSE <<>>

\* a loop that misses the end of the stream
NeverDone(t) == FALSE

\* the done of reader.read(), line 279: the body has been delivered
ReaderDone(t) == t.body = <<>>

\* reader.read() resolves with done at the end of the body: lines 279,
\* 308-310, then finally
ReadEnd(t) ==
    /\ t.pc = "read"
    /\ ReaderDone(t)
    /\ log' = addLine(removeTypingLine(log), FinalText(t.fullResponse), "output",
                      FinalImages(t.imageUrls))
    /\ tasks' = tasks \ {t}
    /\ Finally("normal")
    /\ UNCHANGED <<inputValue, chatRequests, sesVars, acVars, envVars>>

\* reader.read() rejects (the transport aborts), line 278
ReadRejects(t) ==
    /\ t.pc = "read"
    /\ Catch(t, ReadError)

(***************************************************************************)
(* The autocomplete controller, lines 61-142.                              *)
(***************************************************************************)
\* hideAutocomplete(), lines 121-124: the items stay in the list element
hideAutocomplete ==
    /\ acShown' = FALSE
    /\ selectedIndex' = -1

\* a show that selects the first item
ShowFirst(artworks) == 0

\* this.selectedIndex = -1, line 91
ShowIndex(artworks) == -1

\* showAutocomplete(artworks), lines 89-119
showAutocomplete(artworks) ==
    /\ acItems' = artworks
    /\ selectedIndex' = ShowIndex(artworks)
    /\ acShown' = TRUE

\* a move that stops at the ends of the list
NavigateClamped(sel, n, direction) ==
    LET moved == sel + direction
    IN  IF moved < 0 THEN 0 ELSE IF moved >= n THEN n - 1 ELSE moved

\* a move that does not wrap around at the ends of the list
NavigateNoWrap(sel, n, direction) == sel + direction

\* lines 136-138: the index after a move by direction among n items
NavigateIndex(sel, n, direction) ==
    LET moved   == sel + direction
        wrapLow == IF moved < 0 THEN n - 1 ELSE moved
    IN  IF wrapLow >= n THEN 0 ELSE wrapLow

\* navigateAutocomplete(direction), lines 126-142: querySelectorAll finds the
\* items whether or not the list is shown
navigateAutocomplete(direction) ==
    /\ selectedIndex' = IF Len(acItems) = 0 THEN selectedIndex
                        ELSE NavigateIndex(selectedIndex, Len(acItems), direction)
    /\ UNCHANGED <<acShown, acItems>>

\* a clearTimeout that cancels nothing
ClearNothing(ts, id) == ts

\* clearTimeout(id), line 71: the timers left pending
ClearTimeout(ts, id) == { tm \in ts : tm.id # id }

\* the 'input' listener, line 45, after the user made the value v:
\* handleAutocomplete up to the setTimeout, lines 61-72 and 86
InputChanged(v) ==
    /\ ~inputDisabled
    /\ inputValue' = v
    /\ IF Len(Trim(v)) < 1
         THEN /\ hideAutocomplete
              /\ UNCHANGED <<acItems, autocompleteTimeout, timers, nextTimer>>
         ELSE /\ nextTimer <= MaxTimers
              /\ timers' = ClearTimeout(timers, autocompleteTimeout)
                             \cup { [id |-> nextTimer, query |-> Trim(v)] }
              /\ autocompleteTimeout' = nextTimer
              /\ nextTimer' = nextTimer + 1
              /\ UNCHANGED <<acShown, acItems, selectedIndex>>
    /\ UNCHANGED <<acFetches, isProcessing, inputDisabled, log, chatRequests,
                   tasks, sesVars, envVars>>

\* a debounce timer fires: the callback runs up to await fetch, lines 72-74
TimerFires(tm) ==
    /\ tm \in timers
    /\ timers' = timers \ {tm}
    /\ acFetches' = acFetches \cup {tm}
    /\ UNCHANGED <<acShown, acItems, selectedIndex, autocompleteTimeout,
                   nextTimer, subVars, sesVars, envVars>>

\* the fetch and response.json() resolve with data, lines 75-81
AutocompleteResolves(f, data) ==
    /\ f \in acFetches
    /\ acFetches' = acFetches \ {f}
    /\ IF "artworks" \in DOMAIN data /\ Len(data.artworks) > 0
         THEN showAutocomplete(data.artworks)
         ELSE hideAutocomplete /\ UNCHANGED acItems
    /\ UNCHANGED <<autocompleteTimeout, timers, nextTimer, subVars, sesVars,
                   envVars>>

\* the fetch or response.json() rejects, lines 82-85
AutocompleteFails(f) ==
    /\ f \in acFetches
    /\ acFetches' = acFetches \ {f}
    /\ hideAutocomplete
    /\ UNCHANGED <<acItems, autocompleteTimeout, timers, nextTimer, subVars,
                   sesVars, envVars>>

\* the click listener of item i of the shown list, lines 109-113
ItemClick(i) ==
    /\ acShown
    /\ i \in 1..Len(acItems)
    /\ inputValue' = acItems[i]
    /\ hideAutocomplete
    /\ UNCHANGED <<acItems, autocompleteTimeout, timers, nextTimer, acFetches,
                   isProcessing, inputDisabled, log, chatRequests, tasks,
                   sesVars, envVars>>

(***************************************************************************)
(* The keypress and blur listeners, lines 19-58.  The keypress listener    *)
(* is modelled for every dispatch of the event, whatever the state of the  *)
(* input element.                                                          *)
(***************************************************************************)
\* items[this.selectedIndex] is an element, line 24
ItemSelected == selectedIndex >= 0 /\ selectedIndex < Len(acItems)

\* the text of the input element instead of the name of the selected item
TypedText == inputValue

\* items[this.selectedIndex].dataset.name, line 25
AcceptedName == acItems[selectedIndex + 1]

\* key 'Enter', lines 20-32
KeypressEnter ==
    /\ IF ~isProcessing
         THEN IF acShown
                THEN IF ItemSelected
                       THEN /\ hideAutocomplete
                            /\ handleInput(AcceptedName)
                            /\ UNCHANGED acItems
                       ELSE UNCHANGED <<acShown, acItems, selectedIndex, subVars>>
                ELSE /\ handleInput(inputValue)
                     /\ UNCHANGED <<acShown, acItems, selectedIndex>>
         ELSE UNCHANGED <<acShown, acItems, selectedIndex, subVars>>
    /\ UNCHANGED <<autocompleteTimeout, timers, nextTimer, acFetches, sesVars,
                   envVars>>

\* keys 'ArrowDown' (1) and 'ArrowUp' (-1), lines 33-38
KeypressArrow(direction) ==
    /\ navigateAutocomplete(direction)
    /\ UNCHANGED <<autocompleteTimeout, timers, nextTimer, acFetches, subVars,
                   sesVars, envVars>>

\* key 'Escape', lines 39-41
KeypressEscape ==
    /\ hideAutocomplete
    /\ UNCHANGED <<acItems, autocompleteTimeout, timers, nextTimer, acFetches,
                   subVars, sesVars, envVars>>

\* the blur listener, lines 50-52: it starts the grace timer
Blur ==
    /\ blurTimers < MaxBlur
    /\ blurTimers' = blurTimers + 1
    /\ UNCHANGED <<acVars, subVars, sesVars, linesSent>>

\* the grace timer fires, lines 52-57
BlurTimerFires ==
    /\ blurTimers > 0
    /\ blurTimers' = blurTimers - 1
    /\ IF ~isProcessing
         THEN hideAutocomplete
         ELSE UNCHANGED <<acShown, selectedIndex>>
    /\ UNCHANGED <<acItems, autocompleteTimeout, timers, nextTimer, acFetches,
                   subVars, sesVars, linesSent>>

(***************************************************************************)
(* Specifications.                                                         *)
(***************************************************************************)
\* the responses of the specification of the whole client
UiStreams ==
    { <<>>,
      << [kind |-> "event", json |-> [token |-> TokA]],
         [kind |-> "event", json |-> [done |-> TRUE]] >> }

\* the steps of the session and of the autocomplete controller
UiStep ==
    \/ CreateSessionResolves
    \/ CreateSessionFails
    \/ \E v \in InputTexts : InputChanged(v)
    \/ \E tm \in timers : TimerFires(tm)
    \/ \E f \in acFetches, data \in AutocompleteBodies : AutocompleteResolves(f, data)
    \/ \E f \in acFetches : AutocompleteFails(f)
    \/ \E i \in 1..Len(acItems) : ItemClick(i)
    \/ \E d \in {-1, 1} : KeypressArrow(d)
    \/ KeypressEscape
    \/ Blur
    \/ BlurTimerFires

\* the submit attempts: handleInput() is called by the Enter key only
SubmitStep == KeypressEnter

\* the chat request settles
ChatSettles(S) ==
    \E t \in tasks :
        \/ ChatFetchRejects(t)
        \/ ChatRespondsNotOk(t)
        \/ \E s \in S : ChatRespondsOk(t, s)

\* the chunk sizes the reader may deliver of a body b: any prefix of it
\* (cut "any"), or the whole of it (cut "whole")
ChunkSizes(cut, b) == IF cut = "any" THEN 1..Len(b) ELSE { Len(b) } \ {0}

\* a pending reader.read() resolves
ReadResolves(cut) ==
    \E t \in tasks :
        \/ \E k \in ChunkSizes(cut, t.body) : ReadChunk(t, k)
        \/ ReadEnd(t)

ReadFails == \E t \in tasks : ReadRejects(t)

Next ==
    \/ UiStep
    \/ SubmitStep
    \/ ChatSettles(UiStreams)
    \/ ReadResolves("whole")
    \/ ReadFails

\* the whole client, each response body delivered in one chunk
Spec == Init /\ [][Next]_vars

\* the submission path alone, over every response and every way of cutting
\* its body into chunks
NextStream ==
    \/ SubmitStep
    \/ ChatSettles(Streams)
    \/ ReadResolves("any")
    \/ ReadFails

\* the terminal with a text in the input element and no autocomplete work
\* pending
InitStream ==
    /\ sessionId = "null"
    /\ sessionPc = "pending"
    /\ isProcessing = FALSE
    /\ inputDisabled = FALSE
    /\ inputValue \in InputTexts
    /\ acShown = FALSE
    /\ acItems = <<>>
    /\ selectedIndex = -1
    /\ autocompleteTimeout = 0
    /\ timers = {}
    /\ nextTimer = 1
    /\ acFetches = {}
    /\ blurTimers = 0
    /\ log = <<>>
    /\ chatRequests = <<>>
    /\ tasks = {}
    /\ linesSent = 0

SpecStream == InitStream /\ [][NextStream]_vars

\* responses with a done record at the end and with a record after it
LiveStreams ==
    { <<>>,
      << [kind |-> "event", json |-> [token |-> TokA]],
         [kind |-> "event", json |-> [done |-> TRUE]] >>,
      << [kind |-> "event", json |-> [done |-> TRUE]],
         [kind |-> "event", json |-> [token |-> TokA]] >> }

NextLive ==
    \/ \E v \in InputTexts : InputChanged(v)
    \/ SubmitStep
    \/ ChatSettles(LiveStreams)
    \/ ReadResolves("any")
    \/ ReadFails

\* the submission path under the fairness of the network: the pending chat
\* request eventually settles, and a pending reader.read() of the (finite)
\* body eventually resolves
SpecLive ==
    /\ Init
    /\ [][NextLive]_vars
    /\ WF_vars(ChatSettles(LiveStreams))
    /\ WF_vars(ReadResolves("any"))

(***************************************************************************)
(* Properties of the read loop, checked under SpecStream.                  *)
(***************************************************************************)
\* a well-formed event stream: event lines only, a done record only as the last
WellFormed(ls) ==
    \A i \in 1..Len(ls) :
        /\ ls[i].kind = "event"
        /\ DoneTruthy(ls[i].json) => i = Len(ls)

\* the local state of the loop when the whole response arrives as one chunk
SingleChunk(ls) == ProcessChunk(WireBytes(ls), <<>>, <<>>, <<>>)

\* the entry handleInput commits for the local state r
Committed(r) ==
    [cls |-> "output", text |-> FinalText(r.fullResponse),
     images |-> FinalImages(r.imageUrls)]

\* C1 (chunk-boundary invariance): when the read loop of a well-formed
\* stream ends, the records it processed, and the entry it commits, are those
\* of the same stream delivered as a single chunk, however the body was cut
\* into chunks.
C1_ChunkBoundaryInvariance ==
    [][\A t \in tasks :
         (WellFormed(t.sent) /\ ReadEnd(t)) =>
             /\ t.events = SingleChunk(t.sent).events
             /\ log'[Len(log')] = Committed(SingleChunk(t.sent))]_vars

\* C2 (done ends the sequence): once a done record has been processed, no
\* record of a later chunk changes the accumulated text or the image list of
\* that submission.
C2_DoneEndsSequence ==
    [][\A t \in tasks : \A u \in tasks' :
         (t.sawDone /\ u.id = t.id) =>
             /\ u.fullResponse = t.fullResponse
             /\ u.imageUrls = t.imageUrls]_vars

\* the concatenation of the token texts of a sequence of records, in order
RECURSIVE FoldText(_)
FoldText(evs) ==
    IF evs = <<>> THEN <<>>
    ELSE (IF "token" \in DOMAIN Head(evs) THEN Head(evs).token ELSE <<>>)
           \o FoldText(Tail(evs))

\* the list of the last images record of a sequence of records, none if none
RECURSIVE LastImages(_)
LastImages(evs) ==
    IF evs = <<>> THEN <<>>
    ELSE IF "images" \in DOMAIN evs[Len(evs)] THEN evs[Len(evs)].images
    ELSE LastImages(SubSeq(evs, 1, Len(evs) - 1))

IsPrefix(a, b) == Len(a) <= Len(b) /\ SubSeq(b, 1, Len(a)) = a

\* the text the in-progress entry shows
RenderedText(lg) == IF TypingIndex(lg) = 0 THEN <<>> ELSE lg[TypingIndex(lg)].text

\* the rendering part of C7: while a submission reads its response, the
\* in-progress entry shows the concatenation of the tokens processed so far,
\* and each rendered text extends the one before
RendersCumulative ==
    \A t \in tasks : \A u \in tasks' :
        (t.pc = "read" /\ u.id = t.id) =>
            /\ u.fullResponse = FoldText(u.events)
            /\ RenderedText(log') = FoldText(u.events)
            /\ IsPrefix(RenderedText(log), RenderedText(log'))

\* C7 as stated (aggregate fold): each token is appended and rendered
\* cumulatively, and the finalized entry's text is the concatenation of all
\* token texts of the records processed and its images the last images list.
C7_FoldAsStated ==
    [][/\ RendersCumulative
       /\ \A t \in tasks :
            ReadEnd(t) =>
                /\ log'[Len(log')].cls = "output"
                /\ log'[Len(log')].text = FoldText(t.events)
                /\ log'[Len(log')].images = LastImages(t.events)]_vars

\* C7 as amended: the same, the finalized entry's text being the
\* concatenation of all token texts when that is not empty and the fixed
\* placeholder when it is.
C7_Fold ==
    [][/\ RendersCumulative
       /\ \A t \in tasks :
            ReadEnd(t) =>
                /\ log'[Len(log')].cls = "output"
                /\ log'[Len(log')].text =
                      (IF FoldText(t.events) = <<>> THEN Placeholder
                       ELSE FoldText(t.events))
                /\ log'[Len(log')].images = LastImages(t.events)]_vars

\* a finalized entry made of two different tokens, in emission order
C7_Witness ==
    \E i \in 1..Len(log) :
        /\ log[i].cls = "output"
        /\ log[i].text = TokA \o TokE

\* C8 (finalization): the end of the stream, with or without a done record
\* before it, replaces the in-progress entry by exactly one finalized entry,
\* whose text is the placeholder exactly when the accumulated text is empty
\* and the accumulated text otherwise.
C8_Finalization ==
    [][\A t \in tasks :
         ReadEnd(t) =>
             /\ Len(log') = Len(log)
             /\ log[Len(log)].cls = "typing"
             /\ SubSeq(log', 1, Len(log') - 1) = SubSeq(log, 1, Len(log) - 1)
             /\ log'[Len(log')].cls = "output"
             /\ CountCls(log', "typing") = 0
             /\ CountCls(log', "output") = CountCls(log, "output") + 1
             /\ (log'[Len(log')].text = Placeholder) <=> (t.fullResponse = <<>>)
             /\ t.fullResponse # <<>> => log'[Len(log')].text = t.fullResponse]_vars

\* a response of two lines without a token was finalized with the placeholder
C8_Witness ==
    /\ tasks = {}
    /\ linesSent = 2
    /\ log # <<>>
    /\ log[Len(log)].cls = "output"
    /\ log[Len(log)].text = Placeholder

\* a line the loop skips: no marker, or a payload JSON.parse rejects
IsJunk(line) ==
    \/ ~StartsWith(line, Marker)
    \/ \A e \in JsonTable : e.text # Trim(Slice(line, 6))

NotJunk(line) == ~IsJunk(line)

\* C9 (malformed payload tolerance): a turn of the read loop leaves the
\* accumulated text and image list exactly as the same chunk with its
\* unparseable and unmarked lines removed would, the submission goes on
\* reading, and no error entry appears.
C9_JunkLinesSkipped ==
    [][\A t \in tasks : \A u \in tasks' :
         (u.id = t.id /\ Len(u.body) < Len(t.body)) =>
             LET chunk == SubSeq(t.body, 1, Len(t.body) - Len(u.body))
                 clean == SelectSeq(SplitLines(Decode(chunk)), NotJunk)
                 r     == ProcessLines(clean,
                             [fullResponse |-> t.fullResponse,
                              imageUrls |-> t.imageUrls, rendered |-> FALSE,
                              events |-> t.events, broke |-> FALSE])
             IN  /\ u.fullResponse = r.fullResponse
                 /\ u.imageUrls = r.imageUrls
                 /\ u.pc = "read"
                 /\ CountCls(log', "output error") = CountCls(log, "output error")]_vars

\* a response whose first line is malformed was read to its end and the
\* token after the malformed line was taken
C9_Witness ==
    \E t \in tasks :
        /\ t.body = <<>>
        /\ Len(t.sent) = 2
        /\ t.sent[1].kind = "malformed"
        /\ t.fullResponse = TokA

(***************************************************************************)
(* Properties of the submission and of the selection, checked under Spec.  *)
(***************************************************************************)
\* C3 (single flight): at most one chat request is in flight, and a submit
\* attempt (Enter or accept) made while the lock is true
\* dispatches nothing, adds no entry and leaves lock and input text alone.
C3_SingleFlight ==
    [][/\ Cardinality(tasks') <= 1
       /\ (isProcessing /\ KeypressEnter) =>
             /\ chatRequests' = chatRequests
             /\ log' = log
             /\ isProcessing' = isProcessing
             /\ inputValue' = inputValue]_vars

\* the lock is true while the input holds a message and another submission
\* is still allowed: only the lock stops a submit attempt here
C3_Witness ==
    /\ isProcessing
    /\ Cardinality(tasks) = 1
    /\ Trim(inputValue) # <<>>
    /\ Completed(log) < MaxSubmits

\* C4 (guaranteed cleanup): whichever way a dispatched submission ends, the
\* state right after has the lock false and the input enabled.
C4_Cleanup ==
    [][\A t \in tasks :
         (\A u \in tasks' : u.id # t.id) =>
             (~isProcessing' /\ ~inputDisabled')]_vars

\* a stream read was rejected after a token had been taken from the stream
C4_Witness ==
    /\ ~isProcessing
    /\ ~inputDisabled
    /\ linesSent > 0
    /\ log # <<>>
    /\ log[Len(log)] = [cls |-> "output error", text |-> ErrorText(ReadError),
                         images |-> <<>>]

\* C5 (no deadlock): every submission that set the lock is followed by a
\* state where the lock is false again and the input is enabled, which is
\* what the next submission needs.
C5_LockReleased == isProcessing ~> (~isProcessing /\ ~inputDisabled)

\* the lock was released at the end of a response that went on after done
C5_Witness ==
    /\ Len(chatRequests) = 1
    /\ ~isProcessing
    /\ linesSent = 2
    /\ log[Len(log)] = [cls |-> "output", text |-> TokA, images |-> <<>>]

\* a submission fails: before the response, by its status, or while reading
Fails(t) == ChatFetchRejects(t) \/ ChatRespondsNotOk(t) \/ ReadRejects(t)

\* C6 (failure path): a failed submission leaves no in-progress entry, one
\* more error entry (the last one) and no more finalized entry, and dispatches
\* no further request; every submit dispatched exactly one request.
C6_FailurePath ==
    [][/\ Len(chatRequests') = CountCls(log', "output user")
       /\ \A t \in tasks :
            Fails(t) =>
                /\ CountCls(log', "typing") = 0
                /\ CountCls(log', "output error") = CountCls(log, "output error") + 1
                /\ log'[Len(log')].cls = "output error"
                /\ CountCls(log', "output") = CountCls(log, "output")
                /\ chatRequests' = chatRequests]_vars

\* a request answered with a non-success status left its error entry
C6_Witness ==
    /\ tasks = {}
    /\ Len(chatRequests) = 1
    /\ log = << [cls |-> "output user", text |-> <<"M">>, images |-> <<>>],
                [cls |-> "output error", text |-> ErrorText(HttpError),
                 images |-> <<>>] >>

\* C10 (selection range): selectedIndex is an integer from -1 to the number
\* of suggestion items minus one.
C10_SelectionRange ==
    /\ selectedIndex \in Int
    /\ -1 <= selectedIndex
    /\ selectedIndex <= Len(acItems) - 1

\* the last of two items is selected while a submission is in flight
C10_Witness ==
    /\ Len(acItems) = 2
    /\ selectedIndex = 1
    /\ isProcessing

(***************************************************************************)
(* The autocomplete state machine.                                         *)
(***************************************************************************)
\* C11 (closed implies no selection): whenever the list is closed
\* selectedIndex is -1, and an arrow key pressed while the list is closed
\* leaves selectedIndex as it was.
C11_ClosedNoSelection ==
    [][ /\ (~acShown' => selectedIndex' = -1)
        /\ \A d \in {-1, 1} :
              (~acShown /\ KeypressArrow(d)) => selectedIndex' = selectedIndex
      ]_vars

\* the index navigate(direction) is to yield among n >= 1 items
Circular(i, n, direction) ==
    IF direction = 1
      THEN IF i = n - 1 THEN 0 ELSE i + 1
      ELSE IF i <= 0 THEN n - 1 ELSE i - 1

\* C12 (circular navigation): an arrow key with n >= 1 items moves the
\* selection by one and wraps around at both ends; with no items it leaves
\* selectedIndex unchanged.
C12_CircularNavigation ==
    [][ \A d \in {-1, 1} :
          KeypressArrow(d) =>
            IF Len(acItems) >= 1
              THEN selectedIndex' = Circular(selectedIndex, Len(acItems), d)
              ELSE selectedIndex' = selectedIndex
      ]_vars

\* the first of two items is selected in the open list, with nothing
\* submitted yet
C12_Witness ==
    /\ acShown
    /\ Len(acItems) = 2
    /\ selectedIndex = 0
    /\ chatRequests = <<>>

\* C13 (accept): Enter with the list open, a valid selectedIndex and the
\* lock false closes the list with selectedIndex = -1 and dispatches one
\* submission whose message is the name of the selected item; Enter with the
\* list open and selectedIndex = -1 dispatches nothing.
C13_Accept ==
    [][ /\ (/\ KeypressEnter
            /\ ~isProcessing /\ acShown
            /\ 0 <= selectedIndex /\ selectedIndex < Len(acItems))
           => /\ ~acShown'
              /\ selectedIndex' = -1
              /\ chatRequests' =
                    Append(chatRequests, [message |-> acItems[selectedIndex + 1],
                                          session_id |-> sessionId])
              /\ \E t \in tasks' : /\ t.pc = "fetch"
                                    /\ t.message = acItems[selectedIndex + 1]
              /\ log' = log \o
                    << [cls |-> "output user",
                        text |-> acItems[selectedIndex + 1], images |-> <<>>],
                       log'[Len(log')] >>
              /\ isProcessing'
        /\ (KeypressEnter /\ acShown /\ selectedIndex = -1)
           => UNCHANGED <<chatRequests, tasks, log, isProcessing, inputValue>>
      ]_vars

\* the second suggestion was accepted: its name is the message of the
\* request in flight and the list is closed
C13_Witness ==
    /\ isProcessing
    /\ ~acShown
    /\ selectedIndex = -1
    /\ acItems = <<NameMo, NameMa>>
    /\ Len(chatRequests) = 1
    /\ chatRequests[1].message = NameMa
    /\ \E t \in tasks : t.pc = "fetch"

\* the list data.artworks of an answer, empty when the answer has none
ArtworksOf(data) == IF "artworks" \in DOMAIN data THEN data.artworks ELSE <<>>

\* C14 (fetch-resolved): an answer with a non-empty list opens the list with
\* exactly the returned items and selectedIndex = -1; an answer with an empty
\* or missing list, and a failed fetch, close it with selectedIndex = -1; no
\* step of the autocomplete path changes the display log or the lock.
C14_FetchResolved ==
    [][ /\ \A f \in acFetches, data \in AutocompleteBodies :
              AutocompleteResolves(f, data) =>
                /\ IF ArtworksOf(data) # <<>>
                     THEN /\ acShown'
                          /\ acItems' = ArtworksOf(data)
                          /\ selectedIndex' = -1
                     ELSE /\ ~acShown'
                          /\ selectedIndex' = -1
                /\ UNCHANGED <<log, isProcessing>>
        /\ \A f \in acFetches :
              AutocompleteFails(f) =>
                /\ ~acShown'
                /\ selectedIndex' = -1
                /\ UNCHANGED <<log, isProcessing>>
        /\ \A tm \in timers :
              TimerFires(tm) => UNCHANGED <<log, isProcessing>>
      ]_vars

\* the only fetch issued was answered with two suggestions: the list is open
\* on them with nothing selected
C14_Witness ==
    /\ acShown
    /\ acItems = <<NameMo, NameMa>>
    /\ selectedIndex = -1
    /\ acFetches = {}
    /\ timers = {}
    /\ nextTimer = 2

\* C15 (debounce): at most one debounce timer is pending; an input change
\* with a non-empty query leaves its own timer as the only pending one; the
\* timer that fires is the most recently scheduled one.
C15_Debounce ==
    [][ /\ Cardinality(timers') <= 1
        /\ \A v \in InputTexts :
              (InputChanged(v) /\ Trim(v) # <<>>) =>
                timers' = { [id |-> nextTimer, query |-> Trim(v)] }
        /\ \A tm \in timers :
              TimerFires(tm) => tm.id = nextTimer - 1
      ]_vars

\* two timers were scheduled and the second alone is pending, no fetch
\* having been issued for the first
C15_Witness ==
    /\ nextTimer = 3
    /\ timers = { [id |-> 2, query |-> <<"M">>] }
    /\ acFetches = {}
    /\ acItems = <<>>
    /\ log = <<>>

\* C16 (latest request wins): the answer to, or the failure of, a fetch that
\* is not the last one scheduled leaves the list, its items and the
\* selection as they were.
C16_LatestRequestWins ==
    [][ \A f \in acFetches :
          (/\ f.id # autocompleteTimeout
           /\ \/ AutocompleteFails(f)
              \/ \E data \in AutocompleteBodies : AutocompleteResolves(f, data))
            => UNCHANGED <<acShown, acItems, selectedIndex>>
      ]_vars

\* C17 (autocomplete is not concurrent with a submission): while the lock
\* is true no autocomplete fetch is issued and the list does not open.
C17_NoAutocompleteWhileLocked ==
    [][ (isProcessing /\ isProcessing') =>
          /\ acFetches' \subseteq acFetches
          /\ acShown' => acShown
      ]_vars

\* a submission is dispatched, or one completes with a finalized response
Dispatched == Len(chatRequests') = Len(chatRequests) + 1
CompletedOk == CountCls(log', "output") = CountCls(log, "output") + 1

\* C18 (cancel is unconditional): the Escape key, the blur grace timer, the
\* dispatch of a submission and its successful completion each leave the
\* list closed with selectedIndex = -1.
C18_CancelUnconditional ==
    [][ (KeypressEscape \/ BlurTimerFires \/ Dispatched \/ CompletedOk)
          => (~acShown' /\ selectedIndex' = -1)
      ]_vars

\* C19 (session handle): the handle never changes once it is set; every
\* chat request dispatched carries the handle the session creation yields;
\* a session creation whose fetch or decoding fails leaves the handle null,
\* and submissions are dispatched with whatever handle there is.
C19_SessionHandle ==
    [][ /\ sessionId # "null" => sessionId' = sessionId
        /\ sessionId' \notin {"null", "undefined"} =>
              \A i \in 1..Len(chatRequests') :
                  chatRequests'[i].session_id = sessionId'
        /\ CreateSessionFails => sessionId' = "null"
        /\ Len(chatRequests') = Len(chatRequests) + 1 =>
              chatRequests'[Len(chatRequests')].session_id = sessionId
      ]_vars

\* C20 (an empty query closes for good): an input change with an empty
\* trimmed query closes the list with selectedIndex = -1, and as long as the
\* input stays empty, nothing having been submitted, no debounce timer fires
\* and the list stays closed.
C20_EmptyQueryCloses ==
    [][ /\ \A v \in InputTexts :
              (InputChanged(v) /\ Trim(v) = <<>>) =>
                (~acShown' /\ selectedIndex' = -1)
        /\ (/\ chatRequests' = <<>>
            /\ Trim(inputValue) = <<>>
            /\ Trim(inputValue') = <<>>)
           => /\ acFetches' \subseteq acFetches
              /\ ~acShown'
      ]_vars

(***************************************************************************)
(* The display log against the lock.                                       *)
(***************************************************************************)
\* the permanent entries of the log, in order
Permanent(lg) == SelectSeq(lg, LAMBDA e : e.cls # "typing")

\* the permanent entries come in pairs, the user's message and then one
\* finalized response or one error entry; the last pair lacks its second
\* entry exactly while its submission is open
PairedEntries(lg, open) ==
    LET perm == Permanent(lg)
    IN  /\ \A i \in 1..Len(perm) :
              IF i % 2 = 1 THEN perm[i].cls = "output user"
                           ELSE perm[i].cls \in {"output", "output error"}
        /\ (Len(perm) % 2 = 1) <=> open

\* C21 (lock, input and in-progress entry in step): the log has at most one
\* in-progress entry; the lock is true iff the input is disabled iff there
\* is exactly one in-progress entry, which then is the last entry; every
\* completed submission has left its user message followed by one finalized
\* response or one error entry.
C21_InStep ==
    /\ CountCls(log, "typing") <= 1
    /\ isProcessing <=> inputDisabled
    /\ isProcessing <=> (CountCls(log, "typing") = 1)
    /\ isProcessing => log[Len(log)].cls = "typing"
    /\ PairedEntries(log, isProcessing)
    /\ Len(Permanent(log)) = 2 * Completed(log) + (IF isProcessing THEN 1 ELSE 0)

\* a submission has completed with an error: its two permanent entries are
\* all of the log, the lock is false and the input is enabled
C21_Witness ==
    /\ ~isProcessing
    /\ ~inputDisabled
    /\ Len(log) = 2
    /\ log[1].cls = "output user"
    /\ log[2].cls = "output error"
    /\ tasks = {}
====
